---- MODULE Spec2Model ----
(***************************************************************************)
(* Model of the reservation store of reservebot (data/redis.go) and of the *)
(* two goroutines of main (reservebot.go) that call it: the event handler  *)
(* and the periodic prune sweep.                                           *)
(*                                                                         *)
(* Every critical section of the store (m.lock.Lock() ... deferred Unlock) *)
(* is one action: the lock makes it atomic, so the interleavings of the    *)
(* model are the interleavings of the critical sections of the goroutines. *)
(* An operation that locks twice is two actions.                           *)
(* The two redis documents are read into fresh values in every section     *)
(* (json.Unmarshal) and only what a section writes with SetRedis... is     *)
(* stored.                                                                 *)
(*                                                                         *)
(* Spec is the two goroutines of main interleaved; FairSpec adds fair      *)
(* scheduling; SpecSeq runs one operation at a time; SpecReserve is two    *)
(* goroutines inside Reserve; SpecLock is the operations as steps on the   *)
(* mutex and the documents; SpecBackend is a backend whose calls can fail. *)
(***************************************************************************)
EXTENDS Integers, Sequences, FiniteSets, TLC

VARIABLES reservationsDoc, resourcesDoc, pc, frame, sweep, now, panicked,
          callers, lock, todo

vars == <<reservationsDoc, resourcesDoc, pc, frame, sweep, now, panicked, callers, lock, todo>>

(* ------------------------------ bounds --------------------------------- *)

\* the clock runs from 1 to MaxTime; 0 is the zero time.Time
MaxTime == 2

\* Reserve is not called once the stored sequence holds MaxRes reservations
MaxRes == 3

\* the pruneExpire flag of main, in clock units: PruneInactiveResources(PruneExpire)
PruneExpire == 1

Users == {"alice", "bob"}

Names == {"db1"}

Envs == {"prod", "stg"}

Handler == "handler"

Pruner == "pruner"

Procs == {Handler, Pruner}

(* ---------------------------- entity model ----------------------------- *)

\* models.ResourceKey: the derived key of (name, env)
ResourceKey(name, env) == name \o "/" \o env

\* (r *Resource).Key()
Key(r) == ResourceKey(r.Name, r.Env)

\* every derived key, in the order sort.Strings gives
KeyOrder == <<"db1/prod", "db1/stg">>

\* &models.Resource{Name: name, Env: env}: LastActivity is the zero time
NewResource(name, env) == [Name |-> name, Env |-> env, LastActivity |-> 0]

\* &models.Reservation{User: u, Resource: r, Time: t}
NewReservation(u, r, t) == [User |-> [ID |-> u], Resource |-> r, Time |-> t]

\* (q *Queue).HasReservations() of a non-nil queue
HasReservations(q) == Len(q) > 0

(* ------------------------- key-value backend --------------------------- *)

EmptyMap == [k \in {} |-> NewResource("", "")]

\* a redis key that was never written
Unset(empty) == [set |-> FALSE, val |-> empty]

\* rdb.Set of the marshalled collection
SetRedisReservations(res) == [set |-> TRUE, val |-> res]

SetRedisResources(res) == [set |-> TRUE, val |-> res]

\* rdb.Get; a missing key is first set to the empty collection.  The
\* result is the document as stored after the read; .val is what the
\* caller gets.
GetRedisReservations(doc) == IF doc.set THEN doc ELSE SetRedisReservations(<<>>)

GetRedisResources(doc) == IF doc.set THEN doc ELSE SetRedisResources(EmptyMap)

\* MapPut into a new map instead of the one that was read
MapPutAlone(m, key, r) == [k \in {key} |-> r]

\* resources[key] = r
MapPut(m, key, r) == [k \in DOMAIN m \cup {key} |-> IF k = key THEN r ELSE m[k]]

\* delete(resources, key)
MapDelete(m, key) == [k \in DOMAIN m \ {key} |-> m[k]]

(* ------------------------------ helpers -------------------------------- *)

\* GetResource creating the resource whatever create says
GetResourceAlwaysCreate(doc, name, env, create) ==
  LET read == GetRedisResources(doc)
      resources == read.val
      key == ResourceKey(name, env)
  IN  IF key \in DOMAIN resources
        THEN [r |-> <<resources[key]>>, doc |-> read]
        ELSE [r |-> <<NewResource(name, env)>>,
              doc |-> SetRedisResources(MapPut(resources, key, NewResource(name, env)))]

\* The body of GetResource between Lock and Unlock: r is <<>> for nil and
\* <<resource>> otherwise, doc is the resources document afterwards.
GetResource(doc, name, env, create) ==
  LET read == GetRedisResources(doc)
      resources == read.val
      key == ResourceKey(name, env)
  IN  IF key \in DOMAIN resources
        THEN [r |-> <<resources[key]>>, doc |-> read]
        ELSE IF create
               THEN [r |-> <<NewResource(name, env)>>,
                     doc |-> SetRedisResources(
                               MapPut(resources, Key(NewResource(name, env)), NewResource(name, env)))]
               ELSE [r |-> <<>>, doc |-> read]

\* indexes of the reservations of one resource key, in stored order
RECURSIVE IndexesOf(_, _, _)
IndexesOf(res, key, i) ==
  IF i > Len(res) THEN <<>>
  ELSE IF Key(res[i].Resource) = key
         THEN <<i>> \o IndexesOf(res, key, i + 1)
         ELSE IndexesOf(res, key, i + 1)

\* QueueOf with every reservation put in front of the ones found before it
RECURSIVE QueueOfReversed(_, _)
QueueOfReversed(res, key) ==
  IF res = <<>> THEN <<>>
  ELSE IF Key(Head(res).Resource) = key
         THEN QueueOfReversed(Tail(res), key) \o <<Head(res)>>
         ELSE QueueOfReversed(Tail(res), key)

\* the reservations of one resource key, in stored order
RECURSIVE QueueOf(_, _)
QueueOf(res, key) ==
  IF res = <<>> THEN <<>>
  ELSE IF Key(Head(res).Resource) = key
         THEN <<Head(res)>> \o QueueOf(Tail(res), key)
         ELSE QueueOf(Tail(res), key)

\* reservations = append(reservations[:idx], reservations[idx+1:]...)
\* (i is idx + 1)
DeleteAt(res, i) == SubSeq(res, 1, i - 1) \o SubSeq(res, i + 1, Len(res))

(* ------------------------------- state --------------------------------- *)

\* what an operation returns: an error, a position, reservations, a resource
NoRet == [err |-> "", pos |-> 0, res |-> <<>>, r |-> <<>>]

IdleFrame ==
  [op |-> "", user |-> "", name |-> "", env |-> "", create |-> FALSE, r |-> <<>>, ret |-> NoRet]

\* the locals of PruneInactiveResources: list is what the range over resources
\* has still to visit, r (its head) first; oldest is oldestTime
IdleSweep == [list |-> <<>>, oldest |-> 0]

\* goroutines that call Reserve at the same time, and what each one holds:
\* its position, its arguments, the r of its lookup and the error it got
Callers == {"c1", "c2"}

IdleCaller == [pc |-> "idle", user |-> "", name |-> "", env |-> "", r |-> <<>>, err |-> ""]

\* goroutines that call the store seen as a sequence of accesses under m.lock:
\* todo[t] is what t has still to execute of the operation it called
Threads == {"t1", "t2"}

\* the value of lock when no goroutine holds m.lock
NoOwner == "none"

Init ==
  /\ callers = [c \in Callers |-> IdleCaller]
  /\ lock = NoOwner
  /\ todo = [t \in Threads |-> <<>>]
  /\ reservationsDoc = Unset(<<>>)
  /\ resourcesDoc = Unset(EmptyMap)
  /\ pc = [p \in Procs |-> "idle"]
  /\ frame = IdleFrame
  /\ sweep = IdleSweep
  /\ now = 1
  /\ panicked = FALSE

\* the stored collections as any reader gets them
Reservations == reservationsDoc.val

Resources == resourcesDoc.val

(* ------------------------------ actions -------------------------------- *)

\* time passes
Tick ==
  /\ ~panicked
  /\ now < MaxTime
  /\ now' = now + 1
  /\ UNCHANGED <<reservationsDoc, resourcesDoc, pc, frame, sweep, panicked, callers, lock, todo>>

\* the handler goroutine calls a store operation
Call(op, user, name, env) ==
  /\ ~panicked
  /\ pc[Handler] = "idle"
  /\ op = "Reserve" => Len(Reservations) < MaxRes
  /\ frame' = [IdleFrame EXCEPT !.op = op, !.user = user, !.name = name, !.env = env]
  /\ pc' = [pc EXCEPT ![Handler] = op \o "1"]
  /\ UNCHANGED <<reservationsDoc, resourcesDoc, sweep, now, panicked, callers, lock, todo>>

\* return from the operation with ret: the arguments and locals are gone,
\* the caller has the result
Return(ret) ==
  /\ frame' = [IdleFrame EXCEPT !.op = frame.op, !.ret = ret]
  /\ pc' = [pc EXCEPT ![Handler] = "idle"]

\* Reserve, first critical section: r := m.GetResource(name, env, true)
Reserve1 ==
  /\ pc[Handler] = "Reserve1"
  /\ LET g == GetResource(resourcesDoc, frame.name, frame.env, TRUE)
     IN  /\ resourcesDoc' = g.doc
         /\ frame' = [frame EXCEPT !.r = g.r]
  /\ pc' = [pc EXCEPT ![Handler] = "Reserve2"]
  /\ UNCHANGED <<reservationsDoc, sweep, now, panicked, callers, lock, todo>>

\* InQueue with the scan leaving the loop after the first reservation
InQueueFirstOnly(res, user, key) ==
  res # <<>> /\ res[1].User.ID = user /\ Key(res[1].Resource) = key

\* InQueue without the comparison of the resource keys
InQueueAnyResource(res, user, key) ==
  \E i \in 1..Len(res) : res[i].User.ID = user

\* does the sequence hold a reservation of this user for this key
InQueue(res, user, key) ==
  \E i \in 1..Len(res) : res[i].User.ID = user /\ Key(res[i].Resource) = key

\* Reserve, second critical section: scan for a collision, append, persist
Reserve2 ==
  /\ pc[Handler] = "Reserve2"
  /\ LET read == GetRedisReservations(reservationsDoc)
         reservations == read.val
         r == frame.r[1]
         stamped == [r EXCEPT !.LastActivity = now]
     IN  IF InQueue(reservations, frame.user, Key(r))
           THEN /\ reservationsDoc' = read
                /\ Return([NoRet EXCEPT !.err = "AlreadyInQueue"])
           ELSE /\ reservationsDoc' =
                     SetRedisReservations(Append(reservations, NewReservation(frame.user, stamped, now)))
                /\ Return(NoRet)
  /\ UNCHANGED <<resourcesDoc, sweep, now, panicked, callers, lock, todo>>

\* Create: r := m.GetResource(name, env, true); r.LastActivity = time.Now()
\* (the stamp is made on the local copy r and nothing is written after it)
Create1 ==
  /\ pc[Handler] = "Create1"
  /\ LET g == GetResource(resourcesDoc, frame.name, frame.env, TRUE)
     IN  /\ resourcesDoc' = g.doc
         /\ Return(NoRet)
  /\ UNCHANGED <<reservationsDoc, sweep, now, panicked, callers, lock, todo>>

\* LookupOrFail calling GetResource with create = true
LookupOrCreate(at, next) ==
  /\ pc[Handler] = at
  /\ LET g == GetResource(resourcesDoc, frame.name, frame.env, TRUE)
     IN  /\ resourcesDoc' = g.doc
         /\ frame' = [frame EXCEPT !.r = g.r]
         /\ pc' = [pc EXCEPT ![Handler] = next]
  /\ UNCHANGED <<reservationsDoc, sweep, now, panicked, callers, lock, todo>>

\* first critical section of an operation on a resource that must exist:
\* r := m.GetResource(name, env, false); if r == nil { return ResourceDoesNotExist }
LookupOrFail(at, next) ==
  /\ pc[Handler] = at
  /\ LET g == GetResource(resourcesDoc, frame.name, frame.env, FALSE)
     IN  /\ resourcesDoc' = g.doc
         /\ IF g.r = <<>>
              THEN Return([NoRet EXCEPT !.err = "ResourceDoesNotExist"])
              ELSE /\ frame' = [frame EXCEPT !.r = g.r]
                   /\ pc' = [pc EXCEPT ![Handler] = next]
  /\ UNCHANGED <<reservationsDoc, sweep, now, panicked, callers, lock, todo>>

\* the first index i with res[i] of this key and this user, 0 if none
\* (idx + 1 of the loops of Remove and GetPosition)
RECURSIVE FindUser(_, _, _, _)
FindUser(res, user, key, i) ==
  IF i > Len(res) THEN 0
  ELSE IF Key(res[i].Resource) = key /\ res[i].User.ID = user THEN i
  ELSE FindUser(res, user, key, i + 1)

\* pos of those loops: the reservations of this key in res[1..i]
PosAt(res, key, i) == Cardinality({j \in 1..i : Key(res[j].Resource) = key})

\* StampFirst without the comparison of the resource keys
StampFirstOfAll(res, key, t) ==
  IF res = <<>> THEN res ELSE [res EXCEPT ![1].Time = t]

\* for _, res := range reservations { if key matches { res.Time = now; break } }
StampFirst(res, key, t) ==
  LET ix == IndexesOf(res, key, 1)
  IN  IF ix = <<>> THEN res ELSE [res EXCEPT ![ix[1]].Time = t]

Remove1 == LookupOrFail("Remove1", "Remove2")

\* Remove, second critical section
Remove2 ==
  /\ pc[Handler] = "Remove2"
  /\ LET read == GetRedisReservations(reservationsDoc)
         reservations == read.val
         key == Key(frame.r[1])
         i == FindUser(reservations, frame.user, key, 1)
         pos == PosAt(reservations, key, i)
         removed == DeleteAt(reservations, i)
     IN  IF i = 0
           THEN /\ reservationsDoc' = read
                /\ Return([NoRet EXCEPT !.err = "NotInQueue"])
           ELSE /\ reservationsDoc' = SetRedisReservations(
                       IF pos = 1 THEN StampFirst(removed, key, now) ELSE removed)
                /\ Return(NoRet)
  /\ UNCHANGED <<resourcesDoc, sweep, now, panicked, callers, lock, todo>>

GetPosition1 == LookupOrFail("GetPosition1", "GetPosition2")

\* GetPosition, second critical section
GetPosition2 ==
  /\ pc[Handler] = "GetPosition2"
  /\ LET read == GetRedisReservations(reservationsDoc)
         reservations == read.val
         key == Key(frame.r[1])
         i == FindUser(reservations, frame.user, key, 1)
     IN  /\ reservationsDoc' = read
         /\ IF i = 0
              THEN Return([NoRet EXCEPT !.err = "NotInQueue"])
              ELSE Return([NoRet EXCEPT !.pos = PosAt(reservations, key, i)])
  /\ UNCHANGED <<resourcesDoc, sweep, now, panicked, callers, lock, todo>>

\* for idx, res := range reservations {
\*     if match { reservations = append(reservations[:idx], reservations[idx+1:]...) } }
\* The range runs over the slice as it was before the loop (length Len(A)),
\* while every append shifts the shared backing array A left and shortens
\* the slice variable to len elements.  i is idx + 1, M the reservations
\* that match.  reservations[idx+1:] panics when idx + 1 > len.
RECURSIVE RangeDelete(_, _, _, _)
RangeDelete(A, len, i, M) ==
  IF i > Len(A) THEN [panic |-> FALSE, val |-> SubSeq(A, 1, len)]
  ELSE IF A[i] \notin M THEN RangeDelete(A, len, i + 1, M)
  ELSE IF i > len THEN [panic |-> TRUE, val |-> SubSeq(A, 1, len)]
  ELSE RangeDelete([j \in 1..Len(A) |-> IF j >= i /\ j < len THEN A[j + 1] ELSE A[j]],
                   len - 1, i + 1, M)

\* the reservations of a sequence that are of one resource key
OfKey(res, key) == {res[i] : i \in {j \in 1..Len(res) : Key(res[j].Resource) = key}}

\* the reservations of a sequence that are of one env
OfEnv(res, env) == {res[i] : i \in {j \in 1..Len(res) : res[j].Resource.Env = env}}

\* the second critical section of RemoveResource, for the resource r:
\* the two documents afterwards, or a panic out of the loop
RemoveResourceBody(resDoc, rscDoc, r) ==
  LET read == GetRedisReservations(resDoc)
      readR == GetRedisResources(rscDoc)
      loop == RangeDelete(read.val, Len(read.val), 1, OfKey(read.val, Key(r)))
  IN  IF loop.panic
        THEN [panic |-> TRUE, reservations |-> read, resources |-> readR]
        ELSE [panic |-> FALSE,
              reservations |-> SetRedisReservations(loop.val),
              resources |-> SetRedisResources(MapDelete(readR.val, Key(r)))]

RemoveResource1 == LookupOrFail("RemoveResource1", "RemoveResource2")

\* RemoveResource, second critical section
RemoveResource2 ==
  /\ pc[Handler] = "RemoveResource2"
  /\ LET b == RemoveResourceBody(reservationsDoc, resourcesDoc, frame.r[1])
     IN  /\ reservationsDoc' = b.reservations
         /\ resourcesDoc' = b.resources
         /\ panicked' = b.panic
         /\ Return(IF b.panic THEN [NoRet EXCEPT !.err = "panic"] ELSE NoRet)
  /\ UNCHANGED <<sweep, now, callers, lock, todo>>

\* RemoveEnv: one critical section
RemoveEnv1 ==
  /\ pc[Handler] = "RemoveEnv1"
  /\ LET read == GetRedisReservations(reservationsDoc)
         readR == GetRedisResources(resourcesDoc)
         env == frame.env
         loop == RangeDelete(read.val, Len(read.val), 1, OfEnv(read.val, env))
         gone == {k \in DOMAIN readR.val : readR.val[k].Env = env}
         exists == OfEnv(read.val, env) # {} \/ gone # {}
     IN  IF loop.panic
           THEN /\ reservationsDoc' = read
                /\ resourcesDoc' = readR
                /\ panicked' = TRUE
                /\ Return([NoRet EXCEPT !.err = "panic"])
           ELSE IF ~exists
             THEN /\ reservationsDoc' = read
                  /\ resourcesDoc' = readR
                  /\ panicked' = FALSE
                  /\ Return([NoRet EXCEPT !.err = "EnvDoesNotExist"])
             ELSE /\ reservationsDoc' = SetRedisReservations(loop.val)
                  /\ resourcesDoc' = SetRedisResources([k \in DOMAIN readR.val \ gone |-> readR.val[k]])
                  /\ panicked' = FALSE
                  /\ Return(NoRet)
  /\ UNCHANGED <<sweep, now, callers, lock, todo>>

GetQueueForResource1 == LookupOrFail("GetQueueForResource1", "GetQueueForResource2")

\* GetQueueForResource, second critical section: ret.res is Queue.Reservations
GetQueueForResource2 ==
  /\ pc[Handler] = "GetQueueForResource2"
  /\ LET read == GetRedisReservations(reservationsDoc)
     IN  /\ reservationsDoc' = read
         /\ Return([NoRet EXCEPT !.res = QueueOf(read.val, Key(frame.r[1]))])
  /\ UNCHANGED <<resourcesDoc, sweep, now, panicked, callers, lock, todo>>

\* FirstOfKey with the scan running to the end of the sequence
LastOfKey(res, key) ==
  LET ix == IndexesOf(res, key, 1)
  IN  IF ix = <<>> THEN <<>> ELSE <<res[ix[Len(ix)]]>>

\* for _, res := range reservations { if key matches { return res, nil } }; return nil, nil
FirstOfKey(res, key) ==
  LET ix == IndexesOf(res, key, 1)
  IN  IF ix = <<>> THEN <<>> ELSE <<res[ix[1]]>>

GetReservationForResource1 == LookupOrFail("GetReservationForResource1", "GetReservationForResource2")

\* GetReservationForResource, second critical section: ret.res is <<>> for nil
GetReservationForResource2 ==
  /\ pc[Handler] = "GetReservationForResource2"
  /\ LET read == GetRedisReservations(reservationsDoc)
     IN  /\ reservationsDoc' = read
         /\ Return([NoRet EXCEPT !.res = FirstOfKey(read.val, Key(frame.r[1]))])
  /\ UNCHANGED <<resourcesDoc, sweep, now, panicked, callers, lock, todo>>

\* Filtered with the comparison of the keys inverted
FilteredSame(res, key) ==
  LET Same(x) == Key(x.Resource) = key
  IN  SelectSeq(res, Same)

\* filtered: the reservations whose key is not the resource's
Filtered(res, key) ==
  LET Other(x) == Key(x.Resource) # key
  IN  SelectSeq(res, Other)

\* the handler goroutine calls GetResource(name, env, create)
CallGetResource(name, env, create) ==
  /\ ~panicked
  /\ pc[Handler] = "idle"
  /\ frame' = [IdleFrame EXCEPT !.op = "GetResource", !.name = name, !.env = env,
                                 !.create = create]
  /\ pc' = [pc EXCEPT ![Handler] = "GetResource1"]
  /\ UNCHANGED <<reservationsDoc, resourcesDoc, sweep, now, panicked, callers, lock, todo>>

\* GetResource, its one critical section
GetResource1 ==
  /\ pc[Handler] = "GetResource1"
  /\ LET g == GetResource(resourcesDoc, frame.name, frame.env, frame.create)
     IN  /\ resourcesDoc' = g.doc
         /\ Return([NoRet EXCEPT !.r = g.r])
  /\ UNCHANGED <<reservationsDoc, sweep, now, panicked, callers, lock, todo>>

ClearQueueForResource1 == LookupOrFail("ClearQueueForResource1", "ClearQueueForResource2")

\* ClearQueueForResource, second critical section
ClearQueueForResource2 ==
  /\ pc[Handler] = "ClearQueueForResource2"
  /\ LET read == GetRedisReservations(reservationsDoc)
     IN  /\ reservationsDoc' = SetRedisReservations(Filtered(read.val, Key(frame.r[1])))
         /\ Return(NoRet)
  /\ UNCHANGED <<resourcesDoc, sweep, now, panicked, callers, lock, todo>>

\* GetResources between Lock and Unlock: the resources ordered by key
RECURSIVE SortedResources(_, _)
SortedResources(resources, i) ==
  IF i > Len(KeyOrder) THEN <<>>
  ELSE IF KeyOrder[i] \in DOMAIN resources
         THEN <<resources[KeyOrder[i]]>> \o SortedResources(resources, i + 1)
         ELSE SortedResources(resources, i + 1)

\* oldestTime := time.Now().Add(-time.Duration(hours) * time.Hour)
OldestTime(t, hours) == t - hours

\* Before with the instant itself counted as earlier
NotAfter(t, u) == t <= u

\* t.Before(u)
Before(t, u) == t < u

\* the prune goroutine of main wakes up and calls PruneInactiveResources(pruneExpire)
PruneCall ==
  /\ ~panicked
  /\ pc[Pruner] = "idle"
  /\ sweep' = IdleSweep
  /\ pc' = [pc EXCEPT ![Pruner] = "PruneGetResources"]
  /\ UNCHANGED <<reservationsDoc, resourcesDoc, frame, now, panicked, callers, lock, todo>>

\* the sweep goes on to the next resource, or returns after the last one
PruneContinue ==
  IF Len(sweep.list) > 1
    THEN /\ sweep' = [sweep EXCEPT !.list = Tail(sweep.list)]
         /\ pc' = [pc EXCEPT ![Pruner] = "PruneQueue1"]
    ELSE /\ sweep' = IdleSweep
         /\ pc' = [pc EXCEPT ![Pruner] = "idle"]

\* resources := m.GetResources(); oldestTime := time.Now().Add(-hours)
PruneGetResources ==
  /\ pc[Pruner] = "PruneGetResources"
  /\ LET read == GetRedisResources(resourcesDoc)
         list == SortedResources(read.val, 1)
     IN  /\ resourcesDoc' = SetRedisResources(read.val)
         /\ IF list = <<>>
              THEN /\ sweep' = IdleSweep
                   /\ pc' = [pc EXCEPT ![Pruner] = "idle"]
              ELSE /\ sweep' = [sweep EXCEPT !.list = list, !.oldest = OldestTime(now, PruneExpire)]
                   /\ pc' = [pc EXCEPT ![Pruner] = "PruneQueue1"]
  /\ UNCHANGED <<reservationsDoc, frame, now, panicked, callers, lock, todo>>

\* q, err := m.GetQueueForResource(r.Name, r.Env), first critical section.
\* When the resource is gone the error is logged and q is nil.  What
\* q.HasReservations() does with a nil queue is up to the models package:
\* either it dereferences q and the process panics, or it answers false and
\* the loop body goes on to the test of r.LastActivity.
PruneQueue1 ==
  /\ pc[Pruner] = "PruneQueue1"
  /\ LET r == Head(sweep.list)
         g == GetResource(resourcesDoc, r.Name, r.Env, FALSE)
     IN  /\ resourcesDoc' = g.doc
         /\ IF g.r # <<>>
              THEN /\ panicked' = FALSE
                   /\ pc' = [pc EXCEPT ![Pruner] = "PruneQueue2"]
                   /\ sweep' = sweep
              ELSE \/ /\ panicked' = TRUE
                      /\ pc' = [pc EXCEPT ![Pruner] = "panic"]
                      /\ sweep' = sweep
                   \/ /\ panicked' = FALSE
                      /\ IF Before(r.LastActivity, sweep.oldest)
                           THEN /\ pc' = [pc EXCEPT ![Pruner] = "PruneRemove1"]
                                /\ sweep' = sweep
                           ELSE PruneContinue
  /\ UNCHANGED <<reservationsDoc, frame, now, callers, lock, todo>>

\* GetQueueForResource, second critical section, and the two tests of the
\* loop body on its result
PruneQueue2 ==
  /\ pc[Pruner] = "PruneQueue2"
  /\ LET read == GetRedisReservations(reservationsDoc)
         r == Head(sweep.list)
         q == QueueOf(read.val, Key(r))
     IN  /\ reservationsDoc' = read
         /\ IF HasReservations(q)
              THEN PruneContinue
              ELSE IF Before(r.LastActivity, sweep.oldest)
                     THEN /\ pc' = [pc EXCEPT ![Pruner] = "PruneRemove1"]
                          /\ sweep' = sweep
                     ELSE PruneContinue
  /\ UNCHANGED <<resourcesDoc, frame, now, panicked, callers, lock, todo>>

\* m.RemoveResource(r.Name, r.Env), first critical section; the error is logged
PruneRemove1 ==
  /\ pc[Pruner] = "PruneRemove1"
  /\ LET r == Head(sweep.list)
         g == GetResource(resourcesDoc, r.Name, r.Env, FALSE)
     IN  /\ resourcesDoc' = g.doc
         /\ IF g.r = <<>>
              THEN PruneContinue
              ELSE /\ pc' = [pc EXCEPT ![Pruner] = "PruneRemove2"]
                   /\ sweep' = sweep
  /\ UNCHANGED <<reservationsDoc, frame, now, panicked, callers, lock, todo>>

\* m.RemoveResource(r.Name, r.Env), second critical section
PruneRemove2 ==
  /\ pc[Pruner] = "PruneRemove2"
  /\ LET b == RemoveResourceBody(reservationsDoc, resourcesDoc, Head(sweep.list))
     IN  /\ reservationsDoc' = b.reservations
         /\ resourcesDoc' = b.resources
         /\ panicked' = b.panic
         /\ IF b.panic
              THEN /\ pc' = [pc EXCEPT ![Pruner] = "panic"]
                   /\ sweep' = sweep
              ELSE PruneContinue
  /\ UNCHANGED <<frame, now, callers, lock, todo>>

PruneStep ==
  \/ PruneGetResources
  \/ PruneQueue1 \/ PruneQueue2
  \/ PruneRemove1 \/ PruneRemove2

\* the operations that take a user, and those that take only (name, env);
\* RemoveEnv(name, env) is one of the latter
UserOps == {"Reserve", "Remove", "GetPosition"}

ResourceOps == {"Create", "RemoveResource", "GetQueueForResource",
                "GetReservationForResource", "ClearQueueForResource"}

HandlerStep ==
  \/ Create1
  \/ Reserve1 \/ Reserve2
  \/ Remove1 \/ Remove2
  \/ GetPosition1 \/ GetPosition2
  \/ RemoveResource1 \/ RemoveResource2
  \/ RemoveEnv1
  \/ GetQueueForResource1 \/ GetQueueForResource2
  \/ GetReservationForResource1 \/ GetReservationForResource2
  \/ ClearQueueForResource1 \/ ClearQueueForResource2

Next ==
  \/ Tick
  \/ \E op \in UserOps, u \in Users, n \in Names, e \in Envs : Call(op, u, n, e)
  \/ \E op \in ResourceOps \cup {"RemoveEnv"}, n \in Names, e \in Envs : Call(op, "", n, e)
  \/ HandlerStep
  \/ PruneCall
  \/ PruneStep

Spec == Init /\ [][Next]_vars

\* One operation at a time: the handler starts an operation, and the clock
\* moves, only while no sweep is running, and the sweep starts and goes on
\* only while the handler is between two operations.
HandlerAlone ==
  \/ pc[Pruner] = "idle" /\ Tick
  \/ /\ pc[Pruner] = "idle"
     /\ \E op \in UserOps, u \in Users, n \in Names, e \in Envs : Call(op, u, n, e)
  \/ /\ pc[Pruner] = "idle"
     /\ \E op \in ResourceOps \cup {"RemoveEnv"}, n \in Names, e \in Envs : Call(op, "", n, e)
  \/ /\ pc[Pruner] = "idle"
     /\ \E n \in Names, e \in Envs, c \in BOOLEAN : CallGetResource(n, e, c)
  \/ pc[Pruner] = "idle" /\ Create1
  \/ pc[Pruner] = "idle" /\ Reserve1
  \/ pc[Pruner] = "idle" /\ Reserve2
  \/ pc[Pruner] = "idle" /\ Remove1
  \/ pc[Pruner] = "idle" /\ Remove2
  \/ pc[Pruner] = "idle" /\ GetPosition1
  \/ pc[Pruner] = "idle" /\ GetPosition2
  \/ pc[Pruner] = "idle" /\ RemoveResource1
  \/ pc[Pruner] = "idle" /\ RemoveResource2
  \/ pc[Pruner] = "idle" /\ RemoveEnv1
  \/ pc[Pruner] = "idle" /\ GetQueueForResource1
  \/ pc[Pruner] = "idle" /\ GetQueueForResource2
  \/ pc[Pruner] = "idle" /\ GetReservationForResource1
  \/ pc[Pruner] = "idle" /\ GetReservationForResource2
  \/ pc[Pruner] = "idle" /\ ClearQueueForResource1
  \/ pc[Pruner] = "idle" /\ ClearQueueForResource2
  \/ pc[Pruner] = "idle" /\ GetResource1

PrunerAlone ==
  \/ pc[Handler] = "idle" /\ PruneCall
  \/ pc[Handler] = "idle" /\ PruneGetResources
  \/ pc[Handler] = "idle" /\ PruneQueue1
  \/ pc[Handler] = "idle" /\ PruneQueue2
  \/ pc[Handler] = "idle" /\ PruneRemove1
  \/ pc[Handler] = "idle" /\ PruneRemove2

NextSeq == HandlerAlone \/ PrunerAlone

SpecSeq == Init /\ [][NextSeq]_vars

(* ------------------- two concurrent callers of Reserve ------------------ *)

\* the resource mappings other operations can have left behind, one for
\* every set of (name, env)
MapOf(pairs) ==
  [k \in {ResourceKey(p[1], p[2]) : p \in pairs} |->
     LET p == CHOOSE q \in pairs : ResourceKey(q[1], q[2]) = k
     IN  NewResource(p[1], p[2])]

\* the store before the two calls: never written, or written with some of
\* the resources and no reservation
InitReserve ==
  /\ \/ /\ resourcesDoc = Unset(EmptyMap)
        /\ reservationsDoc = Unset(<<>>)
     \/ /\ \E pairs \in SUBSET (Names \X Envs) : resourcesDoc = SetRedisResources(MapOf(pairs))
        /\ reservationsDoc \in {Unset(<<>>), SetRedisReservations(<<>>)}
  /\ callers = [c \in Callers |-> IdleCaller]
  /\ pc = [p \in Procs |-> "idle"]
  /\ frame = IdleFrame
  /\ sweep = IdleSweep
  /\ now = 1
  /\ panicked = FALSE
  /\ lock = NoOwner
  /\ todo = [t \in Threads |-> <<>>]

\* caller c calls Reserve(u, name, env), once, with a user no other caller has
CallerReserve(c, u, name, env) ==
  /\ callers[c].pc = "idle"
  /\ \A d \in Callers \ {c} : callers[d].user # u
  /\ callers' = [callers EXCEPT ![c] = [IdleCaller EXCEPT !.pc = "Reserve1", !.user = u,
                                                          !.name = name, !.env = env]]
  /\ UNCHANGED <<reservationsDoc, resourcesDoc, pc, frame, sweep, now, panicked, lock, todo>>

\* Reserve of caller c, first critical section: r := m.GetResource(name, env, true)
CallerReserve1(c) ==
  /\ callers[c].pc = "Reserve1"
  /\ LET g == GetResource(resourcesDoc, callers[c].name, callers[c].env, TRUE)
     IN  /\ resourcesDoc' = g.doc
         /\ callers' = [callers EXCEPT ![c].r = g.r, ![c].pc = "Reserve2"]
  /\ UNCHANGED <<reservationsDoc, pc, frame, sweep, now, panicked, lock, todo>>

\* Reserve of caller c, second critical section
CallerReserve2(c) ==
  /\ callers[c].pc = "Reserve2"
  /\ LET read == GetRedisReservations(reservationsDoc)
         reservations == read.val
         r == callers[c].r[1]
         stamped == [r EXCEPT !.LastActivity = now]
     IN  IF InQueue(reservations, callers[c].user, Key(r))
           THEN /\ reservationsDoc' = read
                /\ callers' = [callers EXCEPT ![c].pc = "done", ![c].err = "AlreadyInQueue"]
           ELSE /\ reservationsDoc' = SetRedisReservations(
                       Append(reservations, NewReservation(callers[c].user, stamped, now)))
                /\ callers' = [callers EXCEPT ![c].pc = "done"]
  /\ UNCHANGED <<resourcesDoc, pc, frame, sweep, now, panicked, lock, todo>>

NextReserve ==
  \/ Tick
  \/ \E c \in Callers, u \in Users, n \in Names, e \in Envs : CallerReserve(c, u, n, e)
  \/ \E c \in Callers : CallerReserve1(c)
  \/ \E c \in Callers : CallerReserve2(c)

SpecReserve == InitReserve /\ [][NextReserve]_vars

(* ------------------ the store operations under m.lock ------------------- *)

\* A goroutine runs a store operation as a sequence of steps on the mutex and
\* on the two redis documents.  The paths of an operation are the sequences
\* its code can execute; which one is taken depends on the stored data.

\* the iterations of a range over the resources, at most
MaxLoop == 2

\* the four accesses of the documents
Accesses == {"GetRedisReservations", "SetRedisReservations",
             "GetRedisResources", "SetRedisResources"}

\* a critical section without Lock and Unlock
NotLocked(accesses) == accesses

\* m.lock.Lock(); defer m.lock.Unlock(); then the accesses, then the return
\* or the panic that runs the deferred Unlock
Locked(accesses) == <<"Lock">> \o accesses \o <<"Unlock">>

\* one path of A followed by one path of B
Cat(A, B) == {a \o b : a \in A, b \in B}

\* GetResource(name, env, create): the resource is found or is nil, or it is
\* created and stored
GetResourcePaths(create) ==
  {Locked(<<"GetRedisResources">>)}
    \cup IF create THEN {Locked(<<"GetRedisResources", "SetRedisResources">>)} ELSE {}

\* r := m.GetResource(name, env, false); if r == nil { return ... }; then one
\* of the second sections
AfterLookup(sections) ==
  GetResourcePaths(FALSE) \cup Cat(GetResourcePaths(FALSE), sections)

\* the paths of the operations that take m.lock themselves or call only
\* GetResource
PathsOf(op) ==
  CASE op = "Create" -> GetResourcePaths(TRUE)
    [] op = "GetResource" -> GetResourcePaths(TRUE)
    [] op = "Reserve" ->
         Cat(GetResourcePaths(TRUE),
             {Locked(<<"GetRedisReservations">>),
              Locked(<<"GetRedisReservations", "SetRedisReservations">>)})
    [] op = "Remove" ->
         AfterLookup({Locked(<<"GetRedisReservations">>),
                      Locked(<<"GetRedisReservations", "SetRedisReservations">>)})
    [] op = "RemoveResource" ->
         AfterLookup({Locked(<<"GetRedisReservations", "GetRedisResources">>),
                      Locked(<<"GetRedisReservations", "GetRedisResources",
                               "SetRedisReservations", "SetRedisResources">>)})
    [] op = "RemoveEnv" ->
         {Locked(<<"GetRedisReservations", "GetRedisResources">>),
          Locked(<<"GetRedisReservations", "GetRedisResources",
                   "SetRedisReservations", "SetRedisResources">>)}
    [] op = "ClearQueueForResource" ->
         AfterLookup({Locked(<<"GetRedisReservations", "SetRedisReservations">>)})
    [] op \in {"GetPosition", "GetReservation", "GetQueueForResource",
               "GetReservationForResource"} ->
         AfterLookup({Locked(<<"GetRedisReservations">>)})
    [] op = "GetResources" -> {Locked(<<"GetRedisResources", "SetRedisResources">>)}
    [] op = "GetResourcesForEnv" -> {Locked(<<"GetRedisResources">>)}
    [] op = "GetAllUsersInQueues" -> {Locked(<<"GetRedisReservations">>)}

\* for _, r := range resources { body }: the body up to n times
RECURSIVE Repeat(_, _)
Repeat(body, n) ==
  IF n = 0 THEN {<<>>} ELSE {<<>>} \cup Cat(body, Repeat(body, n - 1))

\* the body of the loop of PruneInactiveResources: GetQueueForResource, and
\* RemoveResource when the two tests pass
PruneVisit == Cat(PathsOf("GetQueueForResource"), {<<>>} \cup PathsOf("RemoveResource"))

\* the operations that do not lock themselves ("Does not implement lock")
\* and call operations that do
CompositePathsOf(op) ==
  CASE op = "GetQueues" ->
         Cat(PathsOf("GetResources"), Repeat(PathsOf("GetQueueForResource"), MaxLoop))
    [] op = "GetQueuesForEnv" ->
         Cat(PathsOf("GetResourcesForEnv"), Repeat(PathsOf("GetQueueForResource"), MaxLoop))
    [] op = "PruneInactiveResources" ->
         Cat(PathsOf("GetResources"), Repeat(PruneVisit, MaxLoop))

LockingOps ==
  {"Create", "GetResource", "Reserve", "Remove", "RemoveResource", "RemoveEnv",
   "ClearQueueForResource", "GetPosition", "GetReservation", "GetQueueForResource",
   "GetReservationForResource", "GetResources", "GetResourcesForEnv", "GetAllUsersInQueues"}

CompositeOps == {"GetQueues", "GetQueuesForEnv", "PruneInactiveResources"}

AllPaths ==
  UNION {PathsOf(op) : op \in LockingOps} \cup UNION {CompositePathsOf(op) : op \in CompositeOps}

InitLock ==
  /\ lock = NoOwner
  /\ todo = [t \in Threads |-> <<>>]
  /\ callers = [c \in Callers |-> IdleCaller]
  /\ reservationsDoc = Unset(<<>>)
  /\ resourcesDoc = Unset(EmptyMap)
  /\ pc = [p \in Procs |-> "idle"]
  /\ frame = IdleFrame
  /\ sweep = IdleSweep
  /\ now = 1
  /\ panicked = FALSE

\* goroutine t calls an operation, which will take one of its paths
ThreadCall(t) ==
  /\ todo[t] = <<>>
  /\ \E path \in AllPaths : todo' = [todo EXCEPT ![t] = path]
  /\ UNCHANGED <<reservationsDoc, resourcesDoc, pc, frame, sweep, now, panicked, callers, lock>>

\* m.lock.Lock() of a sync.Mutex: it blocks while the mutex is locked, by
\* whichever goroutine
LockStep(t) ==
  /\ todo[t] # <<>> /\ Head(todo[t]) = "Lock"
  /\ lock = NoOwner
  /\ lock' = t
  /\ todo' = [todo EXCEPT ![t] = Tail(todo[t])]
  /\ UNCHANGED <<reservationsDoc, resourcesDoc, pc, frame, sweep, now, panicked, callers>>

\* the deferred m.lock.Unlock()
UnlockStep(t) ==
  /\ todo[t] # <<>> /\ Head(todo[t]) = "Unlock"
  /\ lock' = NoOwner
  /\ todo' = [todo EXCEPT ![t] = Tail(todo[t])]
  /\ UNCHANGED <<reservationsDoc, resourcesDoc, pc, frame, sweep, now, panicked, callers>>

\* one rdb.Get or rdb.Set of a document
AccessStep(t) ==
  /\ todo[t] # <<>> /\ Head(todo[t]) \in Accesses
  /\ todo' = [todo EXCEPT ![t] = Tail(todo[t])]
  /\ UNCHANGED <<reservationsDoc, resourcesDoc, pc, frame, sweep, now, panicked, callers, lock>>

NextLock ==
  \/ \E t \in Threads : ThreadCall(t)
  \/ \E t \in Threads : LockStep(t)
  \/ \E t \in Threads : UnlockStep(t)
  \/ \E t \in Threads : AccessStep(t)

SpecLock == InitLock /\ [][NextLock]_vars

(* ------------------------ a backend that can fail ----------------------- *)

\* which of the up to three rdb calls of one GetRedis... fail: the first
\* Get, the Set of the empty collection, the second Get
Faults == [get1 : BOOLEAN, set : BOOLEAN, get2 : BOOLEAN]

\* str, err := m.rdb.Get(ctx, key).Result(): err is not nil when the key is
\* missing and when the backend fails
RdbGet(doc, fails) == [err |-> fails \/ ~doc.set, val |-> doc.val]

\* GetRedisReservations and GetRedisResources: if err != nil { Set(empty);
\* Get again; if err != nil { panic } }.  The Set panics when it fails.
\* doc is the document as stored afterwards.
GetRedisOn(doc, empty, f) ==
  IF ~RdbGet(doc, f.get1).err
    THEN [panic |-> FALSE, doc |-> doc]
    ELSE IF f.set
           THEN [panic |-> TRUE, doc |-> doc]
           ELSE [panic |-> RdbGet([set |-> TRUE, val |-> empty], f.get2).err,
                 doc |-> [set |-> TRUE, val |-> empty]]

GetRedisReservationsOn(doc, f) == GetRedisOn(doc, <<>>, f)

GetRedisResourcesOn(doc, f) == GetRedisOn(doc, EmptyMap, f)

\* the reservation a Reserve(u, name, env) at instant 1 has stored
Stored(u, pair) ==
  NewReservation(u, [NewResource(pair[1], pair[2]) EXCEPT !.LastActivity = 1], 1)

\* the store before the calls: never written, or holding some resources and
\* a reservation of one of them
InitBackend ==
  /\ \/ /\ resourcesDoc = Unset(EmptyMap)
        /\ reservationsDoc = Unset(<<>>)
     \/ \E pairs \in SUBSET (Names \X Envs) : \E pair \in pairs : \E u \in Users :
          /\ resourcesDoc = SetRedisResources(MapOf(pairs))
          /\ reservationsDoc = SetRedisReservations(<<Stored(u, pair)>>)
  /\ callers = [c \in Callers |-> IdleCaller]
  /\ pc = [p \in Procs |-> "idle"]
  /\ frame = IdleFrame
  /\ sweep = IdleSweep
  /\ now = 1
  /\ panicked = FALSE
  /\ lock = NoOwner
  /\ todo = [t \in Threads |-> <<>>]

\* GetQueueForResource, first critical section (GetResource with create =
\* false), the backend failing as f says
FaultyLookup(f) ==
  /\ pc[Handler] = "GetQueueForResource1"
  /\ LET read == GetRedisResourcesOn(resourcesDoc, f)
         key == ResourceKey(frame.name, frame.env)
     IN  /\ resourcesDoc' = read.doc
         /\ panicked' = read.panic
         /\ IF read.panic
              THEN Return([NoRet EXCEPT !.err = "panic"])
              ELSE IF key \in DOMAIN read.doc.val
                     THEN /\ frame' = [frame EXCEPT !.r = <<read.doc.val[key]>>]
                          /\ pc' = [pc EXCEPT ![Handler] = "GetQueueForResource2"]
                     ELSE Return([NoRet EXCEPT !.err = "ResourceDoesNotExist"])
  /\ UNCHANGED <<reservationsDoc, sweep, now, callers, lock, todo>>

\* GetQueueForResource, second critical section, the backend failing as f says
FaultyGetQueueForResource2(f) ==
  /\ pc[Handler] = "GetQueueForResource2"
  /\ LET read == GetRedisReservationsOn(reservationsDoc, f)
     IN  /\ reservationsDoc' = read.doc
         /\ panicked' = read.panic
         /\ Return(IF read.panic
                     THEN [NoRet EXCEPT !.err = "panic"]
                     ELSE [NoRet EXCEPT !.res = QueueOf(read.doc.val, Key(frame.r[1]))])
  /\ UNCHANGED <<resourcesDoc, sweep, now, callers, lock, todo>>

NextBackend ==
  \/ \E u \in Users, n \in Names, e \in Envs : Call("Reserve", u, n, e)
  \/ \E n \in Names, e \in Envs : Call("GetQueueForResource", "", n, e)
  \/ Reserve1
  \/ Reserve2
  \/ \E f \in Faults : FaultyLookup(f)
  \/ \E f \in Faults : FaultyGetQueueForResource2(f)

SpecBackend == InitBackend /\ [][NextBackend]_vars
(* ------------------------------ claims --------------------------------- *)

\* the handler completes the critical section at this label in this step
Completes(at) == pc[Handler] = at /\ pc'[Handler] # at

\* the key the handler's operation is about
CallKey == ResourceKey(frame.name, frame.env)

\* positions of a sequence that hold a reservation of one key
KeyPositions(res, key) == {j \in 1..Len(res) : Key(res[j].Resource) = key}

\* positions of a sequence that hold the reservation of one user for one key
MemberPositions(res, user, key) == {j \in KeyPositions(res, key) : res[j].User.ID = user}

\* C1: single membership - the stored sequence holds at most one reservation
\* for each pair (user ID, resource key), in every reachable state.
SingleMembership ==
  \A i, j \in 1..Len(Reservations) :
    (/\ Reservations[i].User.ID = Reservations[j].User.ID
     /\ Key(Reservations[i].Resource) = Key(Reservations[j].Resource)) => i = j

\* a second Reserve of a pair just failed, with two reservations stored
SingleMembershipWitness ==
  /\ pc[Handler] = "idle" /\ frame.op = "Reserve" /\ frame.ret.err = "AlreadyInQueue"
  /\ Len(Reservations) >= 2

\* C2: prune safety - when the sweep deletes a resource, the queue of that
\* resource is empty at the moment of the deletion.
PruneSafety ==
  [][(/\ pc[Pruner] = "PruneRemove2"
      /\ pc'[Pruner] # "PruneRemove2")
     => KeyPositions(Reservations, Key(Head(sweep.list))) = {}]_vars

\* C3: every operation is atomic - its resource lookup and its
\* read-modify-write are one critical section, so when an operation is about
\* to read and write the reservations, the resource it looked up is the
\* resource the mapping holds.
LookupIsCurrent ==
  pc[Handler] \in {"Reserve2", "Remove2", "RemoveResource2", "ClearQueueForResource2",
                   "GetPosition2", "GetQueueForResource2", "GetReservationForResource2"}
    => /\ CallKey \in DOMAIN Resources
       /\ Resources[CallKey] = frame.r[1]

\* C4: GetPosition returns the zero-based rank of the user's reservation in
\* the queue of the resource: the number of reservations of that resource
\* stored before it.
GetPositionZeroBased ==
  [][(Completes("GetPosition2") /\ frame'.ret.err = "")
     => \E i \in MemberPositions(Reservations, frame.user, CallKey) :
          frame'.ret.pos = Cardinality({j \in KeyPositions(Reservations, CallKey) : j < i})]_vars

\* C5: RemoveResource on an existing resource succeeds, leaves no reservation
\* of that key and no resource under that key, and keeps every reservation of
\* the other resources.
RemoveResourceRemovesAll ==
  [][Completes("RemoveResource2")
     => /\ frame'.ret.err = ""
        /\ KeyPositions(Reservations', CallKey) = {}
        /\ CallKey \notin DOMAIN Resources'
        /\ \A j \in 1..Len(Reservations) :
             Key(Reservations[j].Resource) # CallKey
               => \E k \in 1..Len(Reservations') : Reservations'[k] = Reservations[j]]_vars

\* C6: RemoveEnv fails with EnvDoesNotExist, changing nothing, exactly when
\* no resource and no reservation has the env; otherwise it succeeds, no
\* resource and no reservation of the env remains, and those of the other
\* envs are untouched.
RemoveEnvRemovesAll ==
  [][Completes("RemoveEnv1")
     => LET resHere == {j \in 1..Len(Reservations) : Reservations[j].Resource.Env = frame.env}
            rscHere == {k \in DOMAIN Resources : Resources[k].Env = frame.env}
        IN  IF resHere = {} /\ rscHere = {}
              THEN /\ frame'.ret.err = "EnvDoesNotExist"
                   /\ Reservations' = Reservations
                   /\ Resources' = Resources
              ELSE /\ frame'.ret.err = ""
                   /\ \A j \in 1..Len(Reservations') : Reservations'[j].Resource.Env # frame.env
                   /\ \A k \in DOMAIN Resources' : Resources'[k].Env # frame.env
                   /\ \A k \in DOMAIN Resources \ rscHere :
                        k \in DOMAIN Resources' /\ Resources'[k] = Resources[k]
                   /\ \A j \in (1..Len(Reservations)) \ resHere :
                        \E k \in 1..Len(Reservations') : Reservations'[k] = Reservations[j]]_vars

\* C7: promotion re-stamping - a Remove that deletes the head of a queue
\* sets the enqueueTime of the new head to the removal instant and changes
\* no other enqueueTime; a Remove that deletes a non-head reservation changes
\* no enqueueTime.  Nothing but the removed reservation leaves the sequence.
PromotionRestamping ==
  [][(Completes("Remove2") /\ frame'.ret.err = "")
     => \E i \in MemberPositions(Reservations, frame.user, CallKey) :
          LET wasHead == \A j \in KeyPositions(Reservations, CallKey) : i <= j
              Old(j) == IF j < i THEN Reservations[j] ELSE Reservations[j + 1]
              NewHead(j) == /\ Key(Reservations'[j].Resource) = CallKey
                            /\ \A k \in KeyPositions(Reservations', CallKey) : j <= k
          IN  /\ Len(Reservations') = Len(Reservations) - 1
              /\ \A j \in 1..Len(Reservations') :
                   /\ Reservations'[j].User = Old(j).User
                   /\ Reservations'[j].Resource = Old(j).Resource
                   /\ Reservations'[j].Time = IF wasHead /\ NewHead(j) THEN now ELSE Old(j).Time]_vars

\* a Remove of the head left a new head stamped later than it was enqueued,
\* next to a reservation of another resource
PromotionRestampingWitness ==
  /\ pc[Handler] = "idle" /\ frame.op = "Remove" /\ frame.ret.err = ""
  /\ \E i, j \in 1..Len(Reservations) :
       /\ Reservations[i].Time > Reservations[i].Resource.LastActivity
       /\ Key(Reservations[j].Resource) # Key(Reservations[i].Resource)

\* C8: Reserve fails with AlreadyInQueue, leaving the sequence unchanged,
\* exactly when the sequence holds a reservation of the user for the key;
\* otherwise it succeeds and appends one reservation of (user, key), stamped
\* now, at the end.
ReserveAppendsOrFails ==
  [][Completes("Reserve2")
     => IF MemberPositions(Reservations, frame.user, CallKey) # {}
          THEN /\ frame'.ret.err = "AlreadyInQueue"
               /\ Reservations' = Reservations
          ELSE /\ frame'.ret.err = ""
               /\ Len(Reservations') = Len(Reservations) + 1
               /\ SubSeq(Reservations', 1, Len(Reservations)) = Reservations
               /\ LET new == Reservations'[Len(Reservations')]
                  IN  /\ new.User.ID = frame.user
                      /\ Key(new.Resource) = CallKey
                      /\ new.Time = now]_vars

\* a Reserve just succeeded behind two other reservations, one of them of
\* the same user and one of the same resource
ReserveAppendsOrFailsWitness ==
  /\ pc[Handler] = "idle" /\ frame.op = "Reserve" /\ frame.ret.err = ""
  /\ Len(Reservations) = 3
  /\ \E i, j \in 1..2 :
       /\ Reservations[i].User.ID = Reservations[3].User.ID
       /\ Key(Reservations[j].Resource) = Key(Reservations[3].Resource)

\* the position in a sequence of the reservation of (user, key), 0 if none
Where(res, user, key) ==
  IF MemberPositions(res, user, key) = {} THEN 0
  ELSE CHOOSE i \in MemberPositions(res, user, key) : TRUE

\* C9: FIFO order - no step changes the relative order of two reservations
\* that stay in the sequence, a reservation that enters the sequence enters
\* behind all that stay (of two reservations stored after a step, when the
\* later one was stored before the step, so was the earlier one, and before
\* it), and GetQueueForResource returns the reservations of the resource in
\* stored order.
FifoOrder ==
  [][/\ Reservations' # Reservations
          => \A a, b \in 1..Len(Reservations') :
               LET Was(x) == Where(Reservations, x.User.ID, Key(x.Resource))
                   wa == Was(Reservations'[a])
                   wb == Was(Reservations'[b])
               IN  (a < b /\ wb # 0) => (wa # 0 /\ wa < wb)
     /\ Completes("GetQueueForResource2")
          => LET q == frame'.ret.res
                 pos == KeyPositions(Reservations, CallKey)
             IN  /\ Len(q) = Cardinality(pos)
                 /\ \A j \in pos :
                      q[Cardinality({k \in pos : k <= j})] = Reservations[j]]_vars

\* GetQueueForResource just returned a queue of two out of three reservations,
\* the other one stored between them
FifoOrderWitness ==
  /\ pc[Handler] = "idle" /\ frame.op = "GetQueueForResource"
  /\ Len(frame.ret.res) = 2
  /\ Len(Reservations) = 3
  /\ frame.ret.res = <<Reservations[1], Reservations[3]>>

\* C10: single holder - GetReservationForResource returns ResourceDoesNotExist
\* when the key is absent from the mapping; otherwise it returns without error
\* the first reservation of the key in stored order, whatever the enqueue
\* times, and nil when there is none.
SingleHolder ==
  [][/\ Completes("GetReservationForResource1")
          => (frame'.ret.err = "ResourceDoesNotExist" <=> CallKey \notin DOMAIN Resources)
     /\ Completes("GetReservationForResource2")
          => /\ frame'.ret.err = ""
             /\ IF KeyPositions(Reservations, CallKey) = {}
                  THEN frame'.ret.res = <<>>
                  ELSE \E i \in KeyPositions(Reservations, CallKey) :
                         /\ \A j \in KeyPositions(Reservations, CallKey) : i <= j
                         /\ frame'.ret.res = <<Reservations[i]>>]_vars

\* GetReservationForResource just returned the holder of a queue of two whose
\* enqueue times tie, stored behind a reservation of another resource
SingleHolderWitness ==
  /\ pc[Handler] = "idle" /\ frame.op = "GetReservationForResource"
  /\ Len(Reservations) = 3
  /\ frame.ret.res = <<Reservations[2]>>
  /\ Key(Reservations[3].Resource) = Key(Reservations[2].Resource)
  /\ Reservations[3].Time = Reservations[2].Time

\* C11: lastActivity stamping is persisted - after a successful Create,
\* Reserve, Remove or ClearQueueForResource at instant now, the Resource the
\* mapping stores under the key of the call has lastActivity = now.
LastActivityPersisted ==
  [][(/\ \/ Completes("Create1")
         \/ Completes("Reserve2")
         \/ Completes("Remove2")
         \/ Completes("ClearQueueForResource2")
      /\ frame'.ret.err = "")
     => /\ CallKey \in DOMAIN Resources'
        /\ Resources'[CallKey].LastActivity = now]_vars

\* C14: ClearQueueForResource on an existing resource removes every
\* reservation of the key, keeps the reservations of the other resources in
\* their order, and does not touch the mapping: the lookup that finds the
\* resource and the section that filters the sequence both leave it stored.
ClearQueueFrame ==
  [][/\ (Completes("ClearQueueForResource1") /\ CallKey \in DOMAIN Resources)
          => /\ pc'[Handler] = "ClearQueueForResource2"
             /\ Resources' = Resources
             /\ Reservations' = Reservations
     /\ Completes("ClearQueueForResource2")
          => /\ frame'.ret.err = ""
             /\ Resources' = Resources
             /\ KeyPositions(Reservations', CallKey) = {}
             /\ LET others == {j \in 1..Len(Reservations) : Key(Reservations[j].Resource) # CallKey}
                IN  /\ Len(Reservations') = Cardinality(others)
                    /\ \A j \in others :
                         Reservations'[Cardinality({k \in others : k <= j})] = Reservations[j]]_vars

\* ClearQueueForResource just succeeded on a resource that is still in the
\* mapping, and the two reservations of the other resource are still stored
ClearQueueFrameWitness ==
  /\ pc[Handler] = "idle" /\ frame.op = "ClearQueueForResource" /\ frame.ret.err = ""
  /\ Len(Reservations) = 2
  /\ Key(Reservations[1].Resource) = Key(Reservations[2].Resource)
  /\ \E k \in DOMAIN Resources : KeyPositions(Reservations, k) = {}

\* C15: Remove and GetPosition return ResourceDoesNotExist when the key is
\* absent from the mapping and NotInQueue when the user has no reservation of
\* the resource; in both cases the mapping and the sequence are unchanged (the
\* missing resource is not created), and GetPosition never changes them.
ErrorOutcomes ==
  [][/\ \A at \in {"Remove1", "GetPosition1"} :
          Completes(at)
            => /\ Resources' = Resources
               /\ Reservations' = Reservations
               /\ IF CallKey \in DOMAIN Resources
                    THEN pc'[Handler] # "idle"
                    ELSE pc'[Handler] = "idle" /\ frame'.ret.err = "ResourceDoesNotExist"
     /\ \A at \in {"Remove2", "GetPosition2"} :
          Completes(at)
            => /\ frame'.ret.err = "NotInQueue"
                    <=> MemberPositions(Reservations, frame.user, CallKey) = {}
               /\ frame'.ret.err \in {"NotInQueue", ""}
               /\ (frame'.ret.err = "NotInQueue" \/ at = "GetPosition2")
                    => Resources' = Resources /\ Reservations' = Reservations]_vars

\* Remove just failed with NotInQueue on a full sequence
ErrorOutcomesWitness ==
  /\ pc[Handler] = "idle" /\ frame.op = "Remove" /\ frame.ret.err = "NotInQueue"
  /\ Len(Reservations) = MaxRes

\* C18: referential integrity - every stored reservation references a key
\* that is present in the resource mapping.
ReferentialIntegrity ==
  \A i \in 1..Len(Reservations) : Key(Reservations[i].Resource) \in DOMAIN Resources


\* the sweep finishes its visit of the resource at the head of its list
FinishesVisit ==
  /\ pc[Pruner] \in {"PruneQueue1", "PruneQueue2", "PruneRemove1", "PruneRemove2"}
  /\ sweep' # sweep

\* C12: prune age threshold - in a sweep that runs without concurrent
\* operations at instant now, a visited resource is deleted exactly when its
\* queue is empty and its stored lastActivity is strictly earlier than
\* now - PruneExpire; with a lastActivity at or after the threshold, or with a
\* non-empty queue, it survives.  The visit changes nothing else.
PruneThreshold ==
  [][FinishesVisit
     => LET k == Key(Head(sweep.list))
        IN  /\ k \in DOMAIN Resources
            /\ k \notin DOMAIN Resources'
                 <=> /\ KeyPositions(Reservations, k) = {}
                     /\ Resources[k].LastActivity < now - PruneExpire
            /\ \A j \in DOMAIN Resources \ {k} :
                 j \in DOMAIN Resources' /\ Resources'[j] = Resources[j]
            /\ DOMAIN Resources' \subseteq DOMAIN Resources
            /\ Reservations' = Reservations]_vars

\* a sweep has passed over the first resource, which has a reservation and is
\* still stored, and has found the second one old enough to be removed
PruneThresholdWitness ==
  /\ pc[Pruner] = "PruneRemove2"
  /\ Key(Head(sweep.list)) = KeyOrder[2]
  /\ KeyOrder[1] \in DOMAIN Resources
  /\ KeyPositions(Reservations, KeyOrder[1]) # {}

\* C13: idempotent creation - the mapping holds at most one Resource per
\* derived key (every entry is stored under its own key); GetResource with
\* create = true returns the resource of the key and stores it, and on a key
\* that is already present (a second call) it leaves the mapping unchanged;
\* with create = false on an absent key it returns nil and leaves the mapping
\* unchanged.  No other key is touched.
IdempotentCreation ==
  [][/\ \A k \in DOMAIN Resources' : Key(Resources'[k]) = k
     /\ Completes("GetResource1")
          => /\ frame.create
                  => /\ frame'.ret.r # <<>>
                     /\ Key(frame'.ret.r[1]) = CallKey
                     /\ CallKey \in DOMAIN Resources'
                     /\ Resources'[CallKey] = frame'.ret.r[1]
             /\ CallKey \in DOMAIN Resources
                  => /\ Resources' = Resources
                     /\ frame'.ret.r = <<Resources[CallKey]>>
             /\ (~frame.create /\ CallKey \notin DOMAIN Resources)
                  => /\ Resources' = Resources
                     /\ frame'.ret.r = <<>>
             /\ \A j \in DOMAIN Resources \ {CallKey} :
                  j \in DOMAIN Resources' /\ Resources'[j] = Resources[j]
             /\ DOMAIN Resources' \subseteq DOMAIN Resources \cup {CallKey}
             /\ Reservations' = Reservations]_vars

\* GetResource just returned a resource that has a reservation, with the
\* other resource stored next to it
IdempotentCreationWitness ==
  /\ pc[Handler] = "idle" /\ frame.op = "GetResource"
  /\ frame.ret.r # <<>>
  /\ KeyPositions(Reservations, Key(frame.ret.r[1])) # {}
  /\ Cardinality(DOMAIN Resources) = 2


\* C16: no lost update - when two concurrent Reserve calls by different
\* users have both returned, whatever their interleaving, both have
\* succeeded, the reservations of both are stored, once each, and the
\* resources of both are in the mapping; nothing that was in the mapping
\* before has been lost.
NoLostUpdate ==
  (\A c \in Callers : callers[c].pc = "done")
    => /\ \A c \in Callers :
            /\ callers[c].err = ""
            /\ Cardinality(MemberPositions(Reservations, callers[c].user,
                                           ResourceKey(callers[c].name, callers[c].env))) = 1
            /\ ResourceKey(callers[c].name, callers[c].env) \in DOMAIN Resources
       /\ Len(Reservations) = Cardinality(Callers)

\* both calls have returned, for two resources that neither was stored
\* before: the mapping holds exactly these two
NoLostUpdateWitness ==
  /\ \A c \in Callers : callers[c].pc = "done"
  /\ callers["c1"].env # callers["c2"].env
  /\ \A k \in DOMAIN Resources : \E c \in Callers : Resources[k] = callers[c].r[1]
  /\ Reservations[1].Time < Reservations[2].Time


\* goroutine t is about to read or write a document
Accessing(t) == todo[t] # <<>> /\ Head(todo[t]) \in Accesses

\* C17: mutual exclusion of backend access - every read and every write of
\* the two documents by a store operation, the composite GetQueues,
\* GetQueuesForEnv and PruneInactiveResources included, is made by a goroutine
\* that holds the store lock, so no two goroutines access the backend at the
\* same time.
LockHeldOnAccess ==
  /\ \A t \in Threads : Accessing(t) => lock = t
  /\ \A t, u \in Threads : (Accessing(t) /\ Accessing(u)) => t = u

\* a goroutine is about to write the resources at the end of a critical
\* section while the other one, in the middle of its operation, waits for
\* the lock
LockHeldOnAccessWitness ==
  \E t, u \in Threads :
    /\ t # u /\ todo[t] # <<>> /\ todo[u] # <<>>
    /\ Head(todo[t]) = "SetRedisResources" /\ Len(todo[t]) = 2
    /\ Head(todo[u]) = "Lock"
    /\ todo[u] \notin AllPaths


\* the two goroutines scheduled fairly: a goroutine inside an operation
\* eventually runs its next critical section (the mutex is free between the
\* sections of the other goroutine)
FairSpec == Spec /\ WF_vars(HandlerStep) /\ WF_vars(PruneStep)

\* C19: deadlock freedom and completion - with fair scheduling every
\* operation a goroutine has invoked eventually returns: the goroutine gets
\* back to its caller, with the process still running.
OperationsReturn ==
  \A p \in Procs : (pc[p] # "idle") ~> (pc[p] = "idle" /\ ~panicked)


\* C20: backend read failures never destroy data - when the first Get of a
\* GetRedis... fails on a document that has been written, the operation
\* aborts (panics) and the document keeps its content; a document is reset to
\* the empty collection only when it was never written; and when the Get
\* still fails after the initialization the operation panics.
ReadFailuresKeepData ==
  [][\A f \in Faults :
       /\ (FaultyLookup(f) /\ f.get1 /\ resourcesDoc.set)
            => panicked' /\ resourcesDoc' = resourcesDoc
       /\ (FaultyGetQueueForResource2(f) /\ f.get1 /\ reservationsDoc.set)
            => panicked' /\ reservationsDoc' = reservationsDoc
       /\ (FaultyLookup(f) /\ resourcesDoc.set) => Resources' = Resources
       /\ (FaultyGetQueueForResource2(f) /\ reservationsDoc.set) => Reservations' = Reservations
       /\ (FaultyLookup(f) /\ ~resourcesDoc.set /\ ~f.set /\ f.get2) => panicked'
       /\ (FaultyGetQueueForResource2(f) /\ ~reservationsDoc.set /\ ~f.set /\ f.get2)
            => panicked']_vars

====
